---- MODULE Spec2Model ----
(***************************************************************************)
(* State-machine model of joergs-xifs-viewer_rev9a.py (class XISFViewer):  *)
(* the decoded-image cache, the tone-map cache, the preview store, the     *)
(* foreground event handlers and the background thumbnail thread.          *)
(*                                                                         *)
(* Every handler is an operator from the object's state (a record with one *)
(* field per attribute of self, plus the disk and the program's outputs)   *)
(* to the state it leaves; an action stores the record a handler returns.  *)
(* A foreground handler is one atomic step; the background thread takes    *)
(* one step per statement group of _cache_previews_thread_target.          *)
(***************************************************************************)
EXTENDS Integers, Sequences, FiniteSets, TLC

(* ---------------------------- bounds ----------------------------------- *)
\* files of folder "A" in the full model (Spec)
NumFiles == 2
\* the browsing model (SpecLRU) opens a folder of CacheCapacity + ExtraFiles files
ExtraFiles == 1
\* files of the folder in the thumbnail-run model (SpecThumb)
ThumbFiles == 3
\* the largest height and width of an image whose payload is decoded
MaxSide == 2
\* the largest number of 16-bit samples of a buffer that is unshuffled
MaxSamples == 3
\* the largest number of samples of an image that is normalised
MaxPixels == 3
\* files of the folder in the model of the list indices (SpecIndex)
IndexFiles == 4
\* the largest raw sample of an image that is normalised
MaxRaw == 12

(* ----------------------- program constants ----------------------------- *)
\* "if len(self.cache) > 5"
CacheCapacity == 5
\* f.read(4096) on the cache-hit path of load_xisf_file
HeaderReadLimit == 4096
\* self.current_index = None
NoIndex == -1
\* f_xisf.read(8192) in preview_fits_headers
HeaderPeekLimit == 8192

(* ------------------------------ values --------------------------------- *)
\* A path is <<folder, directory, name>>: directory "main" is the folder
\* itself, "PRETRASH" its sub-directory; names sort as the integers do.
NoPath == <<"none", "none", 0>>
PathOf(fold, dir, n) == <<fold, dir, n>>
FoldOf(p) == p[1]
DirOf(p) == p[2]
NameOf(p) == p[3]

\* the extension of a name: odd names are *.xisf, even names *.fits
IsFits(p) == NameOf(p) % 2 = 0

\* a decoded, normalised image: where it was decoded from, the header the
\* file carried at that moment, and the array's layout
NoImg == [src |-> NoPath, hdr |-> "none", layout |-> "none"]
NoParams == <<-1, -1, -1, -1>>
NoTransformed == [img |-> NoImg, par |-> NoParams]

\* a file is <<folder, name>> wherever it lies; the metadata text of a file is
\* its identity and the header value it carries
NoId == <<"none", 0>>
FileId(p) == <<FoldOf(p), NameOf(p)>>
NoHeader == <<"none", NoId, "none">>
NoDisplay == [kind |-> "none", path |-> NoPath, tm |-> NoTransformed]

RECURSIVE SortByName(_)
SortByName(S) ==
    IF S = {} THEN <<>>
    ELSE LET m == CHOOSE x \in S : \A y \in S : NameOf(x) <= NameOf(y)
         IN <<m>> \o SortByName(S \ {m})

Range(q) == {q[i] : i \in 1..Len(q)}
IndexOf(q, x) == CHOOSE i \in 1..Len(q) : q[i] = x
RemoveAt(q, i) == SubSeq(q, 1, i - 1) \o SubSeq(q, i + 1, Len(q))

(* --------------------------- OrderedDict -------------------------------- *)
\* self.cache is a sequence of [path, img] in insertion order
CacheKeys(c) == {c[i].path : i \in 1..Len(c)}
CacheGet(c, p) == c[CHOOSE i \in 1..Len(c) : c[i].path = p].img
\* self.cache[p] = img: a new key goes last, an existing key keeps its place
CachePut(c, p, img) ==
    IF p \in CacheKeys(c)
    THEN [i \in 1..Len(c) |-> IF c[i].path = p THEN [path |-> p, img |-> img] ELSE c[i]]
    ELSE Append(c, [path |-> p, img |-> img])
\* del self.cache[p]
CacheDel(c, p) == SelectSeq(c, LAMBDA e : e.path # p)
\* (mutant: popitem() with its default last=True)
CachePopLast(c) == SubSeq(c, 1, Len(c) - 1)
\* self.cache.popitem(last=False)
CachePopFirst(c) == Tail(c)


(* ------------------------------ state ---------------------------------- *)
VARIABLES
    \* the environment: the files on disk, the message boxes the last
    \* foreground handler showed, and what was printed to stdout
    disk, dialog, log,
    \* attributes of XISFViewer
    current_folder, active_files, pretrash_files, current_file, current_index,
    original_img_norm, xml_header, cache, last_transform_params,
    cached_transformed, preview_cache, displaying_preview,
    preview_generation_in_progress,
    \* widgets: the five Scale values, the two Listbox selections, the image
    \* of image_label and the text of status_label
    sliders, active_sel, pretrash_sel, display, status_label,
    \* how the last call of update_display_image ended
    udi,
    \* the locals of each thread running _cache_previews_thread_target
    bg,
    \* history of the decoded-image cache: its keys from the least to the most
    \* recently inserted or read, and the paths inserted since it was last
    \* empty (Void once a read or a deletion came in between)
    recency, puts,
    \* history of the display: the file whose preview the operator replaced
    \* by the full image with a slider or a preset (NoPath: none, or another
    \* file was selected since)
    adjusted,
    \* a call of one of the module's functions on its own: the arguments and
    \* what the call gave
    input, output

vars == <<disk, dialog, log, current_folder, active_files, pretrash_files,
          current_file, current_index, original_img_norm, xml_header, cache,
          last_transform_params, cached_transformed, preview_cache,
          displaying_preview, preview_generation_in_progress, sliders,
          active_sel, pretrash_sel, display, status_label, udi, bg,
          recency, puts, adjusted, input, output>>

Self ==
    [disk |-> disk, dialog |-> dialog, log |-> log,
     current_folder |-> current_folder, active_files |-> active_files,
     pretrash_files |-> pretrash_files, current_file |-> current_file,
     current_index |-> current_index, original_img_norm |-> original_img_norm,
     xml_header |-> xml_header, cache |-> cache,
     last_transform_params |-> last_transform_params,
     cached_transformed |-> cached_transformed, preview_cache |-> preview_cache,
     displaying_preview |-> displaying_preview,
     preview_generation_in_progress |-> preview_generation_in_progress,
     sliders |-> sliders, active_sel |-> active_sel, pretrash_sel |-> pretrash_sel,
     display |-> display, status_label |-> status_label, udi |-> udi, bg |-> bg,
     recency |-> recency, puts |-> puts, adjusted |-> adjusted]

Store(s) ==
    /\ disk' = s.disk /\ dialog' = s.dialog /\ log' = s.log
    /\ current_folder' = s.current_folder /\ active_files' = s.active_files
    /\ pretrash_files' = s.pretrash_files /\ current_file' = s.current_file
    /\ current_index' = s.current_index
    /\ original_img_norm' = s.original_img_norm /\ xml_header' = s.xml_header
    /\ cache' = s.cache /\ last_transform_params' = s.last_transform_params
    /\ cached_transformed' = s.cached_transformed
    /\ preview_cache' = s.preview_cache
    /\ displaying_preview' = s.displaying_preview
    /\ preview_generation_in_progress' = s.preview_generation_in_progress
    /\ sliders' = s.sliders /\ active_sel' = s.active_sel
    /\ pretrash_sel' = s.pretrash_sel /\ display' = s.display
    /\ status_label' = s.status_label /\ udi' = s.udi /\ bg' = s.bg
    /\ recency' = s.recency /\ puts' = s.puts
    /\ adjusted' = IF s.current_file # current_file THEN NoPath ELSE s.adjusted
    /\ UNCHANGED <<input, output>>

(* ------------------------------ the disk -------------------------------- *)
\* disk[id] = [loc, st, hdr, xml_len]: the directory the file lies in, what a
\* decode of it meets ("ok", "corrupt", and for *.fits "nodata", "rgb",
\* "cube"), the value of its IMAGETYP keyword, the length of its XML block
Exists(d, p) == FileId(p) \in DOMAIN d /\ d[FileId(p)].loc = DirOf(p)
\* sorted(glob(folder/*.xisf) + glob(*.xifs) + glob(*.fits))
Glob(d, fold, dir) ==
    SortByName({PathOf(fold, dir, id[2]) :
                  id \in {x \in DOMAIN d : x[1] = fold /\ d[x].loc = dir}})

\* open(path).read() followed by parse_xisf_header on the first `limit` bytes
\* (0: the whole file): the XML text, or an exception when the file is gone
\* or "</xisf>" lies beyond the bytes read
HeaderParses(d, p, limit) ==
    Exists(d, p) /\ (limit = 0 \/ d[FileId(p)].xml_len <= limit)
HeaderText(d, p) == <<"xml", FileId(p), d[FileId(p)].hdr>>

\* the array a full decode of p yields (normalised: the flat image is an
\* array too), when the decode raises nothing
DecodeRaises(d, p) == ~Exists(d, p) \/ d[FileId(p)].st = "corrupt"
DecodedImage(d, p) ==
    [src |-> p, hdr |-> d[FileId(p)].hdr,
     layout |-> IF d[FileId(p)].st \in {"rgb", "cube"} THEN d[FileId(p)].st
                ELSE "gray"]


(* ------------------------- display and loading -------------------------- *)
\* asinh_stretch, np.power, the two np.clip: the tone-map of an image under
\* the parameters (effective_stretch, gamma, brightness, contrast)
ToneMap(img, par) == [img |-> img, par |-> par]

\* current_params: effective_stretch = base * multiplier
CurrentParams(sl) == <<sl[1] * sl[2], sl[3], sl[4], sl[5]>>

\* update_display_image: the preview when one is to be shown and exists, else
\* the tone-mapped full image (recomputed unless the parameters are those of
\* the cached result), else nothing. An array that is neither 2-D nor 3-D
\* with 3 channels clears the label and returns.
update_display_image(s) ==
    IF s.displaying_preview /\ s.current_file # NoPath
       /\ s.current_file \in s.preview_cache
    THEN [s EXCEPT !.display = [kind |-> "preview", path |-> s.current_file,
                                tm |-> NoTransformed],
                   !.udi = [outcome |-> "preview", layout |-> "none"]]
    ELSE IF s.original_img_norm # NoImg
    THEN LET par == CurrentParams(s.sliders)
             reuse == /\ s.last_transform_params # NoParams
                      /\ s.last_transform_params = par
                      /\ s.cached_transformed # NoTransformed
             transformed == IF reuse THEN s.cached_transformed
                            ELSE ToneMap(s.original_img_norm, par)
             t == [s EXCEPT !.cached_transformed = transformed,
                            !.last_transform_params =
                                IF reuse THEN s.last_transform_params ELSE par]
             layout == transformed.img.layout
         IN IF layout \in {"gray", "rgb"}
            THEN [t EXCEPT !.display = [kind |-> "full", path |-> NoPath,
                                        tm |-> transformed],
                           !.udi = [outcome |-> "full", layout |-> layout]]
            ELSE [t EXCEPT !.display = NoDisplay,
                           !.udi = [outcome |-> "cleared", layout |-> layout]]
    ELSE [s EXCEPT !.display = NoDisplay,
                   !.udi = [outcome |-> "cleared", layout |-> "none"]]

\* (mutant: the insert without the capacity check)
CacheInsertUnbounded(c, p, img) == CachePut(c, p, img)
\* self.cache[file_path] = img_norm; if len(self.cache) > 5: popitem(last=False)
CacheInsert(c, p, img) ==
    LET c1 == CachePut(c, p, img)
    IN IF Len(c1) > CacheCapacity THEN CachePopFirst(c1) ELSE c1

\* the history of a read of self.cache[p], of an insert and of a deletion
\* (a specification that does not record the recency starts it at Void)
Void == <<NoPath>>
Touch(r, p) == IF r = Void THEN Void ELSE Append(SelectSeq(r, LAMBDA x : x # p), p)
ReadCache(s, p) ==
    [s EXCEPT !.recency = Touch(@, p), !.puts = Void]
WriteCache(s, p, img) ==
    LET c == CacheInsert(s.cache, p, img)
    IN [s EXCEPT !.cache = c,
                 !.recency = IF @ = Void THEN Void
                             ELSE SelectSeq(Touch(@, p), LAMBDA x : x \in CacheKeys(c)),
                 !.puts = IF @ = Void \/ Len(@) > CacheCapacity THEN Void
                          ELSE Append(@, p)]
DeleteFromCache(s, p) ==
    IF p \notin CacheKeys(s.cache) THEN s
    ELSE LET c == CacheDel(s.cache, p)
         IN [s EXCEPT !.cache = c,
                      !.recency = IF @ = Void THEN Void
                                  ELSE SelectSeq(@, LAMBDA x : x # p),
                      !.puts = IF c = <<>> THEN <<>> ELSE Void]
ClearCache(s) ==
    [s EXCEPT !.cache = <<>>, !.puts = <<>>,
              !.recency = IF @ = Void THEN Void ELSE <<>>]

\* the cache-hit branch shared by load_xisf_file and load_fits_file
LoadFromCache(s, p) ==
    [ReadCache(s, p) EXCEPT !.original_img_norm = CacheGet(s.cache, p),
                            !.cached_transformed = NoTransformed,
                            !.last_transform_params = NoParams]

\* the decode succeeded: keep the image, drop the tone-map cache, insert
LoadDecoded(s, p) ==
    LET img == DecodedImage(s.disk, p)
    IN WriteCache([s EXCEPT !.original_img_norm = img,
                            !.cached_transformed = NoTransformed,
                            !.last_transform_params = NoParams], p, img)

\* (mutant: the failed decode leaves an all-zero image under the path)
LoadFailedBlank(s, p, kind) ==
    WriteCache([s EXCEPT !.dialog = @ \cup {<<kind, p>>},
                         !.original_img_norm = NoImg,
                         !.display = NoDisplay],
               p, [src |-> p, hdr |-> "none", layout |-> "gray"])
\* the except branch: messagebox.showerror, no image, the label cleared
LoadFailed(s, p, kind) ==
    [s EXCEPT !.dialog = @ \cup {<<kind, p>>},
              !.original_img_norm = NoImg,
              !.display = NoDisplay]

load_xisf_file(s, p) ==
    IF p \in CacheKeys(s.cache)
    THEN update_display_image(
            [LoadFromCache(s, p) EXCEPT !.xml_header =
                IF HeaderParses(s.disk, p, HeaderReadLimit)
                THEN HeaderText(s.disk, p)
                ELSE <<"error", FileId(p), "none">>])
    ELSE IF ~HeaderParses(s.disk, p, 0)
    THEN LoadFailed(s, p, "Failed to open XISF file")
    ELSE LET h == [s EXCEPT !.xml_header = HeaderText(s.disk, p)]
         IN IF DecodeRaises(s.disk, p)
            THEN LoadFailed(h, p, "Failed to open XISF file")
            ELSE update_display_image(LoadDecoded(h, p))

load_fits_file(s, p) ==
    IF p \in CacheKeys(s.cache)
    THEN update_display_image(LoadFromCache(s, p))
    ELSE IF DecodeRaises(s.disk, p)
    THEN LoadFailed(s, p, "Failed to open FITS file")
    ELSE IF s.disk[FileId(p)].st = "nodata"
    THEN [s EXCEPT !.dialog = @ \cup {<<"No image data found", p>>}]
    ELSE update_display_image(LoadDecoded(s, p))

\* if path.lower().endswith(".fits"): load_fits_file else: load_xisf_file
LoadFile(s, p) == IF IsFits(p) THEN load_fits_file(s, p) ELSE load_xisf_file(s, p)


(* ------------------------- foreground handlers -------------------------- *)
\* a handler that raises leaves the state it had reached; Tk prints the
\* traceback and the event loop goes on
Raised(s, what) == [s EXCEPT !.dialog = @ \cup {<<what, NoPath>>}]

\* the thread iterates the list object self.active_files named when its loop
\* began: a rebinding of self.active_files leaves it the old list
Detach(s) ==
    [s EXCEPT !.bg = [t \in DOMAIN s.bg |->
        IF s.bg[t].live
        THEN [s.bg[t] EXCEPT !.live = FALSE, !.snap = s.active_files]
        ELSE s.bg[t]]]

open_folder_dialog(s, folder) ==
    LET s1 == ClearCache([Detach(s) EXCEPT
                  !.current_folder = folder,
                  !.preview_cache = {},
                  !.displaying_preview = FALSE,
                  !.original_img_norm = NoImg,
                  !.cached_transformed = NoTransformed,
                  !.last_transform_params = NoParams])
        s2 == [s1 EXCEPT
                  !.active_files = Glob(s.disk, folder, "main"),
                  !.pretrash_files = Glob(s.disk, folder, "PRETRASH"),
                  !.active_sel = {}, !.pretrash_sel = {},
                  !.current_file = NoPath,
                  !.display = NoDisplay]
        s3 == [s2 EXCEPT !.status_label = <<"files", Len(s2.active_files), 0>>]
    IN IF s3.active_files # <<>>
       THEN LoadFile([s3 EXCEPT !.current_index = 0,
                                !.current_file = s3.active_files[1],
                                !.active_sel = {0}],
                     s3.active_files[1])
       ELSE [s3 EXCEPT !.current_index = NoIndex]

\* _load_and_select_file on the active listbox
load_and_select_file(s, p, idx) ==
    LoadFile([s EXCEPT !.active_sel = {idx},
                       !.displaying_preview = p \in s.preview_cache], p)

\* current_index moves by `step` and current_file follows; IndexError when
\* the new index lies beyond active_files
MoveIndex(s, step) == [s EXCEPT !.current_index = @ + step]
IndexInRange(s) == s.current_index + 1 \in 1..Len(s.active_files)
FollowIndex(s) == [s EXCEPT !.current_file = s.active_files[s.current_index + 1]]

navigate_up(s) ==
    IF s.active_files = <<>> \/ s.current_index = NoIndex THEN s
    ELSE IF s.current_index > 0
    THEN LET m == MoveIndex(s, -1)
         IN IF ~IndexInRange(m) THEN Raised(m, "IndexError")
            ELSE load_and_select_file(FollowIndex(m), FollowIndex(m).current_file,
                                      m.current_index)
    ELSE s

navigate_down(s) ==
    IF s.active_files = <<>> \/ s.current_index = NoIndex THEN s
    ELSE IF s.current_index < Len(s.active_files) - 1
    THEN LET m == FollowIndex(MoveIndex(s, 1))
         IN load_and_select_file(m, m.current_file, m.current_index)
    ELSE s

\* (mutant: the skip loads the file whether or not a preview exists)
SkipToAlwaysLoads(m) ==
    LET p == m.current_file
        s1 == [m EXCEPT !.active_sel = {m.current_index},
                        !.displaying_preview = p \in m.preview_cache]
    IN update_display_image(LoadFile(s1, p))
\* the body skip_up and skip_down share once the index has moved
SkipTo(m) ==
    LET p == m.current_file
        s1 == [m EXCEPT !.active_sel = {m.current_index},
                        !.displaying_preview = p \in m.preview_cache]
        s2 == IF ~s1.displaying_preview /\ p \in CacheKeys(s1.cache)
              THEN [ReadCache(s1, p) EXCEPT
                        !.original_img_norm = CacheGet(s1.cache, p)]
              ELSE IF ~s1.displaying_preview THEN LoadFile(s1, p)
              ELSE s1
    IN update_display_image(s2)

skip_up(s) ==
    IF s.active_files = <<>> \/ s.current_index = NoIndex THEN s
    ELSE IF s.current_index > 0
    THEN LET m == MoveIndex(s, -1)
         IN IF ~IndexInRange(m) THEN Raised(m, "IndexError")
            ELSE SkipTo(FollowIndex(m))
    ELSE s

skip_down(s) ==
    IF s.active_files = <<>> \/ s.current_index = NoIndex THEN s
    ELSE IF s.current_index < Len(s.active_files) - 1
    THEN SkipTo(FollowIndex(MoveIndex(s, 1)))
    ELSE s

\* <<ListboxSelect>> on the active list after a click on item idx
on_active_file_activate(s, idx) ==
    LET c == [s EXCEPT !.active_sel = {idx}]
        p == c.active_files[idx + 1]
    IN IF c.current_index # idx \/ c.current_file # p
       THEN LoadFile([c EXCEPT !.current_index = idx,
                               !.current_file = p,
                               !.displaying_preview = p \in c.preview_cache], p)
       ELSE c

\* <<ListboxSelect>> on the PRETRASH list after a click on item idx
on_pretrash_file_activate(s, idx) ==
    LET p == s.pretrash_files[idx + 1]
    IN LoadFile([s EXCEPT !.pretrash_sel = {idx},
                          !.current_index = idx,
                          !.current_file = p,
                          !.displaying_preview = p \in s.preview_cache], p)


\* the history of a handler that leaves the preview of the current file (it
\* was on the label in state `before`) for the full image
PreviewShown(s) ==
    s.displaying_preview /\ s.current_file # NoPath
    /\ s.current_file \in s.preview_cache
ShowFull(s, before) ==
    IF PreviewShown(before) THEN [s EXCEPT !.adjusted = before.current_file]
    ELSE s

\* on_slider_release
on_slider_release(s) ==
    update_display_image(ShowFull([s EXCEPT !.displaying_preview = FALSE], s))

\* the slider values apply_preset sets for the keys "0" .. "4" (gamma,
\* brightness and contrast in tenths)
Preset(k) ==
    CASE k = "1" -> <<10, 1000, 7, 10, 15>>
      [] k = "0" -> <<0, 1, 10, 10, 10>>
      [] k = "2" -> <<20, 2000, 10, 10, 12>>
      [] k = "3" -> <<50, 5000, 5, 11, 18>>
      [] k = "4" -> <<100, 10000, 4, 12, 20>>

apply_preset(s, k) ==
    update_display_image(ShowFull([s EXCEPT !.sliders = Preset(k),
                                            !.displaying_preview = FALSE], s))

\* shutil.move of path p into directory dir
MoveOnDisk(d, p, dir) == [d EXCEPT ![FileId(p)].loc = dir]

\* the selected indices as Python iterates them: in descending order of
\* their place in the list
RECURSIVE Descending(_)
Descending(S) ==
    IF S = {} THEN <<>>
    ELSE LET m == CHOOSE x \in S : \A y \in S : y <= x
         IN <<m>> \o Descending(S \ {m})

\* the history of a move of the file whose path in the folder is p: every
\* run under way notes it
NoteMove(s, p) ==
    [s EXCEPT !.bg = [t \in DOMAIN s.bg |->
        IF s.bg[t].pc = "idle" THEN s.bg[t]
        ELSE [s.bg[t] EXCEPT !.moved = @ \cup {p}]]]

\* (mutant: the item is popped from the list before the move is tried)
DumpOnePopsFirst(s, p, fails) ==
    LET popped == [s EXCEPT !.active_files = RemoveAt(@, IndexOf(@, p))]
    IN IF p \in fails
       THEN [popped EXCEPT !.dialog = @ \cup {<<"was not moved", p>>}]
       ELSE LET moved == PathOf(FoldOf(p), "PRETRASH", NameOf(p))
                s1 == [popped EXCEPT !.disk = MoveOnDisk(@, p, "PRETRASH"),
                                     !.pretrash_files = Append(@, moved)]
            IN NoteMove([DeleteFromCache(s1, p) EXCEPT !.preview_cache = @ \ {p}], p)
\* one pass of the loop of dump_active_file over the path p
DumpOne(s, p, fails) ==
    IF p \in fails
    THEN [s EXCEPT !.dialog = @ \cup {<<"was not moved", p>>}]
    ELSE LET moved == PathOf(FoldOf(p), "PRETRASH", NameOf(p))
             s1 == [s EXCEPT
                      !.disk = MoveOnDisk(@, p, "PRETRASH"),
                      !.active_files = RemoveAt(@, IndexOf(@, p)),
                      !.pretrash_files = Append(@, moved)]
         IN NoteMove([DeleteFromCache(s1, p) EXCEPT !.preview_cache = @ \ {p}], p)

RECURSIVE DumpLoop(_, _, _)
DumpLoop(s, todo, fails) ==
    IF todo = <<>> THEN s
    ELSE DumpLoop(DumpOne(s, Head(todo), fails), Tail(todo), fails)

\* what dump_active_file does once files have moved
AfterDump(s) ==
    LET s1 == [s EXCEPT
                 !.active_files = SortByName(Range(@)),
                 !.pretrash_files = SortByName(Range(@)),
                 !.active_sel = {}, !.pretrash_sel = {}]
        s2 == IF s1.active_files # <<>>
              THEN LET ci == IF s1.current_index >= Len(s1.active_files)
                             THEN Len(s1.active_files) - 1
                             ELSE s1.current_index
                       p == s1.active_files[ci + 1]
                   IN LoadFile([s1 EXCEPT
                                  !.current_index = ci,
                                  !.current_file = p,
                                  !.active_sel = {ci},
                                  !.displaying_preview = p \in s1.preview_cache], p)
              ELSE [s1 EXCEPT !.current_file = NoPath,
                              !.current_index = NoIndex,
                              !.original_img_norm = NoImg,
                              !.display = NoDisplay]
    IN [s2 EXCEPT !.status_label = <<"files", Len(s2.active_files), 0>>]

\* dump_active_file; shutil.move raises for the paths in `fails`
dump_active_file(s, fails) ==
    IF s.active_files = <<>> \/ s.current_index = NoIndex THEN s
    ELSE LET sel == IF s.active_sel # {} THEN s.active_sel
                    ELSE IF s.current_index < Len(s.active_files)
                    THEN {s.current_index} ELSE {}
             order == Descending(sel)
             todo == [k \in 1..Len(order) |-> s.active_files[order[k] + 1]]
             s1 == DumpLoop(s, todo, fails)
         IN IF Len(s1.active_files) < Len(s.active_files) THEN AfterDump(s1)
            ELSE s1

\* one pass of the loop of restore_pretrash_file over the path p
RestoreOne(s, p, fails) ==
    IF p \in fails
    THEN [s EXCEPT !.dialog = @ \cup {<<"Error while restoring", p>>}]
    ELSE LET back == PathOf(FoldOf(p), "main", NameOf(p))
             s1 == [s EXCEPT
                      !.disk = MoveOnDisk(@, p, "main"),
                      !.pretrash_files = RemoveAt(@, IndexOf(@, p)),
                      !.active_files = Append(@, back)]
         IN NoteMove([DeleteFromCache(s1, back) EXCEPT
                          !.preview_cache = @ \ {back}], back)

\* restore_pretrash_file (the PRETRASH listbox selects one item at most)
restore_pretrash_file(s, fails) ==
    IF s.pretrash_files = <<>> \/ s.pretrash_sel = {} THEN s
    ELSE LET p == s.pretrash_files[(CHOOSE i \in s.pretrash_sel : TRUE) + 1]
             back == PathOf(FoldOf(p), "main", NameOf(p))
             s1 == RestoreOne(s, p, fails)
         IN IF p \in fails THEN s1
            ELSE LET s2 == [s1 EXCEPT !.active_files = SortByName(Range(@)),
                                      !.active_sel = {}, !.pretrash_sel = {}]
                     ci == IndexOf(s2.active_files, back) - 1
                     s3 == LoadFile([s2 EXCEPT
                              !.current_index = ci,
                              !.current_file = back,
                              !.active_sel = {ci},
                              !.displaying_preview = back \in s2.preview_cache],
                              back)
                 IN [s3 EXCEPT !.status_label = <<"files", Len(s3.active_files), 0>>]

\* the indices of a selection as curselection() returns them: ascending
RECURSIVE Ascending(_)
Ascending(S) ==
    IF S = {} THEN <<>>
    ELSE LET m == CHOOSE x \in S : \A y \in S : x <= y
         IN <<m>> \o Ascending(S \ {m})

\* preview_fits_headers reads the old IMAGETYP of a selected file; the file
\* enters changes_to_apply when the read succeeds and the value differs
OldValueReadable(d, p) ==
    Exists(d, p) /\ (IsFits(p) \/ d[FileId(p)].xml_len <= HeaderPeekLimit)
NeedsChange(d, p, v) == OldValueReadable(d, p) /\ d[FileId(p)].hdr # v

\* (mutant: the write without the invalidation)
ApplyOneKeepsCache(s, p, v, fails) ==
    IF p \in fails
    THEN [s EXCEPT !.dialog = @ \cup {<<"Error Applying Change", p>>}]
    ELSE [s EXCEPT !.disk[FileId(p)].hdr = v]
\* one pass of the loop of apply_fits_headers_confirmed: the write, and after
\* a write that raised nothing the invalidation of the header and the image
ApplyOne(s, p, v, fails) ==
    IF p \in fails
    THEN [s EXCEPT !.dialog = @ \cup {<<"Error Applying Change", p>>}]
    ELSE LET s1 == [s EXCEPT !.disk[FileId(p)].hdr = v,
                             !.xml_header = IF p = s.current_file THEN NoHeader
                                            ELSE @]
         IN DeleteFromCache(s1, p)

RECURSIVE ApplyLoop(_, _, _, _)
ApplyLoop(s, todo, v, fails) ==
    IF todo = <<>> THEN s
    ELSE ApplyLoop(ApplyOne(s, Head(todo), v, fails), Tail(todo), v, fails)

\* apply_fits_headers_confirmed over the changes, then the reload of the
\* last selected file
apply_fits_headers_confirmed(s, changes, v, fails, selected) ==
    LET s1 == ApplyLoop(s, changes, v, fails)
        s2 == [s1 EXCEPT !.dialog = @ \cup {<<"Header changes applied", NoPath>>}]
        last == selected[Len(selected)]
    IN IF last \in Range(s2.active_files)
       THEN LET ci == IndexOf(s2.active_files, last) - 1
            IN LoadFile([s2 EXCEPT
                           !.current_index = ci,
                           !.current_file = last,
                           !.active_sel = {ci},
                           !.displaying_preview = last \in s2.preview_cache],
                        last)
       ELSE IF s2.active_files # <<>>
       THEN [s2 EXCEPT !.current_index = 0, !.current_file = s2.active_files[1]]
       ELSE s2

\* edit_fits_headers, "Preview & Apply" with IMAGETYP v, "Confirm": the
\* writes raise for the paths in `fails`
edit_fits_headers(s, v, fails) ==
    IF s.active_sel = {}
    THEN [s EXCEPT !.dialog = @ \cup {<<"No files selected", NoPath>>}]
    ELSE LET order == Ascending(s.active_sel)
             selected == [k \in 1..Len(order) |-> s.active_files[order[k] + 1]]
             changes == SelectSeq(selected, LAMBDA p : NeedsChange(s.disk, p, v))
         IN IF changes = <<>> THEN s
            ELSE apply_fits_headers_confirmed(s, changes, v, fails, selected)

(* ------------------------ the thumbnail thread -------------------------- *)
\* a thread that is not running: no frame, no iterator.  The history of a
\* run is kept beside its locals: todo, the files the list held without a
\* preview when the loop took it; tried, the files _create_single_preview
\* was called for, in order; moved, the files of the folder that
\* dump_active_file or restore_pretrash_file moved while the run was under way
IdleThread ==
    [pc |-> "idle", i |-> 0, file |-> NoPath, ret |-> FALSE, count |-> 0,
     total |-> 0, live |-> FALSE, snap |-> <<>>,
     todo |-> {}, tried |-> <<>>, moved |-> {}]
\* the list object the loop of thread t iterates
IterList(s, t) == IF s.bg[t].live THEN s.active_files ELSE s.bg[t].snap
IdleThreads(s) == {t \in DOMAIN s.bg : s.bg[t].pc = "idle"}

\* create_previews_for_current_folder refuses with a message box
PreviewRefusal(s) ==
    IF s.current_folder = "none" THEN "Please open a folder first"
    ELSE IF s.preview_generation_in_progress
    THEN "Preview generation is already in progress"
    ELSE IF s.active_files = <<>> THEN "No active files"
    ELSE "none"

\* create_previews_for_current_folder; t is the thread it starts
create_previews_for_current_folder(s, t) ==
    IF PreviewRefusal(s) # "none"
    THEN [s EXCEPT !.dialog = @ \cup {<<PreviewRefusal(s), NoPath>>}]
    ELSE [s EXCEPT !.bg[t].pc = "started"]

\* _create_single_preview raises: the raw data cannot be read, or
\* Image.fromarray(mode='L') is handed an array of more than 2 dimensions
PreviewRaises(d, p) ==
    \/ DecodeRaises(d, p)
    \/ d[FileId(p)].st \in {"nodata", "rgb", "cube"}

\* lines 580-584: the flag, the status text, cached_count = 0
ThreadBegin(s, t) ==
    [s EXCEPT !.preview_generation_in_progress = TRUE,
              !.status_label = <<"caching", 0, 0>>,
              !.bg[t] = [@ EXCEPT !.pc = "total", !.count = 0]]

\* line 585: total_files = len(self.active_files)
ThreadTotal(s, t) ==
    [s EXCEPT !.bg[t] = [@ EXCEPT !.pc = "iter", !.total = Len(s.active_files)]]

\* line 586: enumerate(self.active_files) takes the list object
ThreadIter(s, t) ==
    [s EXCEPT !.bg[t] = [@ EXCEPT !.pc = "loop", !.i = 0, !.live = TRUE,
                                  !.todo = Range(s.active_files) \ s.preview_cache,
                                  !.tried = <<>>, !.moved = {}]]

\* the for statement takes the next item of the list, or leaves the loop
ThreadNext(s, t) ==
    LET b == s.bg[t]
        l == IterList(s, t)
    IN IF b.i < Len(l)
       THEN [s EXCEPT !.bg[t] = [b EXCEPT !.file = l[b.i + 1], !.i = b.i + 1,
                                          !.pc = "body"]]
       ELSE [s EXCEPT !.bg[t] = [b EXCEPT !.pc = "finish", !.live = FALSE,
                                          !.snap = <<>>, !.file = NoPath]]

\* progress = int(((i + 1) / total_files) * 100), then the status text; the
\* division raises when total_files is 0 and the thread dies
ThreadProgress(s, t, counted) ==
    LET b == s.bg[t]
    IN IF b.total = 0
       THEN [s EXCEPT !.bg[t] = [b EXCEPT !.pc = "crashed"]]
       ELSE [s EXCEPT !.status_label = <<"caching", (b.i * 100) \div b.total, 0>>,
                      !.bg[t] = [b EXCEPT !.pc = "loop", !.ret = FALSE,
                                          !.count = IF counted THEN @ + 1 ELSE @]]

\* if file_path not in self.preview_cache
ThreadBody(s, t) ==
    IF s.bg[t].file \notin s.preview_cache
    THEN [s EXCEPT !.bg[t] = [@ EXCEPT !.pc = "create",
                                       !.tried = Append(@, s.bg[t].file)]]
    ELSE ThreadProgress(s, t, TRUE)

\* (mutant: an entry is stored before the data is validated and the except
\* branch does not remove it)
create_single_preview_partial(s, t) ==
    LET p == s.bg[t].file
    IN IF PreviewRaises(s.disk, p)
       THEN [s EXCEPT !.log = @ \cup {NameOf(p)},
                      !.preview_cache = @ \cup {p},
                      !.bg[t] = [@ EXCEPT !.ret = FALSE, !.pc = "returned"]]
       ELSE [s EXCEPT !.bg[t].pc = "publish"]
\* _create_single_preview up to the resize: on an exception the except
\* branch prints, removes the entry of the path and returns False
create_single_preview(s, t) ==
    LET p == s.bg[t].file
    IN IF PreviewRaises(s.disk, p)
       THEN [s EXCEPT !.log = @ \cup {NameOf(p)},
                      !.preview_cache = @ \ {p},
                      !.bg[t] = [@ EXCEPT !.ret = FALSE, !.pc = "returned"]]
       ELSE [s EXCEPT !.bg[t].pc = "publish"]

\* (mutant: a failed preview ends the loop)
ThreadReturnedAborts(s, t) ==
    IF s.bg[t].ret THEN ThreadProgress(s, t, TRUE)
    ELSE [s EXCEPT !.bg[t] = [@ EXCEPT !.pc = "finish", !.live = FALSE,
                                       !.snap = <<>>, !.file = NoPath]]
\* if self._create_single_preview(file_path): cached_count += 1, and the
\* progress text
ThreadReturned(s, t) == ThreadProgress(s, t, s.bg[t].ret)

\* self.preview_cache[file_path] = pil_preview_resized; return True
ThreadPublish(s, t) ==
    [s EXCEPT !.preview_cache = @ \cup {s.bg[t].file},
              !.bg[t] = [@ EXCEPT !.ret = TRUE, !.pc = "returned"]]

\* lines 597-598
ThreadFinish(s, t) ==
    [s EXCEPT !.status_label = <<"complete", s.bg[t].count, s.bg[t].total>>,
              !.preview_generation_in_progress = FALSE,
              !.bg[t].pc = "post"]

\* line 601
ThreadPost(s, t) ==
    IF s.current_file # NoPath /\ s.current_file \in s.preview_cache
       /\ ~s.displaying_preview
    THEN [s EXCEPT !.bg[t].pc = "post_set"]
    ELSE [s EXCEPT !.bg[t] = IdleThread]

\* line 602
ThreadPostSet(s, t) ==
    [s EXCEPT !.displaying_preview = TRUE, !.bg[t].pc = "post_update"]

\* line 603
ThreadPostUpdate(s, t) ==
    update_display_image([s EXCEPT !.bg[t] = IdleThread])

(* ------------------------- parse_xisf_header ---------------------------- *)
\* a str is the sequence of its characters; an attribute the element lacks
\* is Absent
Absent == <<"absent">>
StartsAt(s, sep, i) ==
    i + Len(sep) - 1 <= Len(s) /\ SubSeq(s, i, i + Len(sep) - 1) = sep
\* str.split(sep)
RECURSIVE Split(_, _)
Split(s, sep) ==
    LET hits == {i \in 1..Len(s) : StartsAt(s, sep, i)}
    IN IF hits = {} THEN <<s>>
       ELSE LET i == CHOOSE k \in hits : \A j \in hits : k <= j
            IN <<SubSeq(s, 1, i - 1)>>
               \o Split(SubSeq(s, i + Len(sep), Len(s)), sep)
\* str.lower()
LowerChar(c) ==
    CASE c = "A" -> "a" [] c = "F" -> "f" [] c = "H" -> "h" [] c = "I" -> "i"
      [] c = "L" -> "l" [] c = "N" -> "n" [] c = "S" -> "s" [] c = "T" -> "t"
      [] c = "U" -> "u" [] c = "Z" -> "z" [] OTHER -> c
Lower(s) == [i \in 1..Len(s) |-> LowerChar(s[i])]
\* str.strip() of blanks, as int() does before it reads the digits
RECURSIVE Strip(_)
Strip(s) ==
    IF s # <<>> /\ Head(s) = " " THEN Strip(Tail(s))
    ELSE IF s # <<>> /\ s[Len(s)] = " " THEN Strip(SubSeq(s, 1, Len(s) - 1))
    ELSE s
Digits == {"0", "1", "2", "3", "4", "5", "6", "7", "8", "9"}
DigitValue(c) ==
    CASE c = "0" -> 0 [] c = "1" -> 1 [] c = "2" -> 2 [] c = "3" -> 3
      [] c = "4" -> 4 [] c = "5" -> 5 [] c = "6" -> 6 [] c = "7" -> 7
      [] c = "8" -> 8 [] c = "9" -> 9
RECURSIVE DigitsValue(_)
DigitsValue(s) ==
    IF s = <<>> THEN 0
    ELSE 10 * DigitsValue(SubSeq(s, 1, Len(s) - 1)) + DigitValue(s[Len(s)])
\* int(s): blanks around, a sign, decimal digits; ok is FALSE where int()
\* raises ValueError
ParseInt(s) ==
    LET b == Strip(s)
        signed == b # <<>> /\ Head(b) \in {"-", "+"}
        d == IF signed THEN Tail(b) ELSE b
        ok == d # <<>> /\ \A i \in 1..Len(d) : d[i] \in Digits
    IN [ok |-> ok,
        val |-> IF ~ok THEN 0
                ELSE IF signed /\ Head(b) = "-" THEN 0 - DigitsValue(d)
                ELSE DigitsValue(d)]

\* (mutant: width and height taken in the other order)
GeometrySwapped(g) ==
    LET parts == IF g = Absent THEN <<>> ELSE Split(g, <<":">>)
        n == [i \in 1..Len(parts) |-> ParseInt(parts[i])]
    IN IF Len(parts) # 3 \/ \E i \in 1..Len(parts) : ~n[i].ok
       THEN [ok |-> FALSE, w |-> 0, h |-> 0, c |-> 0]
       ELSE [ok |-> TRUE, w |-> n[2].val, h |-> n[1].val, c |-> n[3].val]
\* width, height, channels = map(int, geometry.split(":")): ok is FALSE
\* where the statement raises (no attribute, not three fields, not ints)
Geometry(g) ==
    LET parts == IF g = Absent THEN <<>> ELSE Split(g, <<":">>)
        n == [i \in 1..Len(parts) |-> ParseInt(parts[i])]
    IN IF Len(parts) # 3 \/ \E i \in 1..Len(parts) : ~n[i].ok
       THEN [ok |-> FALSE, w |-> 0, h |-> 0, c |-> 0]
       ELSE [ok |-> TRUE, w |-> n[1].val, h |-> n[2].val, c |-> n[3].val]

Attachment == <<"a", "t", "t", "a", "c", "h", "m", "e", "n", "t">>
\* (mutant: the scheme is not looked at)
LocationAnyScheme(l) ==
    LET parts == Split(IF l = Absent THEN Attachment \o <<":", "0", ":", "0">>
                       ELSE l, <<":">>)
    IN IF Len(parts) < 3 \/ ~ParseInt(parts[2]).ok \/ ~ParseInt(parts[3]).ok
       THEN [ok |-> FALSE, offset |-> 0, size |-> 0]
       ELSE [ok |-> TRUE, offset |-> ParseInt(parts[2]).val,
             size |-> ParseInt(parts[3]).val]
\* location.split(":"), the test of parts[0], int(parts[1]), int(parts[2])
Location(l) ==
    LET parts == Split(IF l = Absent THEN Attachment \o <<":", "0", ":", "0">>
                       ELSE l, <<":">>)
    IN IF parts[1] # Attachment
       THEN [ok |-> FALSE, offset |-> 0, size |-> 0]
       ELSE IF Len(parts) < 3 \/ ~ParseInt(parts[2]).ok \/ ~ParseInt(parts[3]).ok
       THEN [ok |-> FALSE, offset |-> 0, size |-> 0]
       ELSE [ok |-> TRUE, offset |-> ParseInt(parts[2]).val,
             size |-> ParseInt(parts[3]).val]

UInt16 == <<"U", "I", "n", "t", "1", "6">>
\* bytes_per_pixel, 0 where the else branch raises
BytesPerPixel(f) ==
    IF Lower(IF f = Absent THEN UInt16 ELSE f) = Lower(UInt16) THEN 2 ELSE 0

None == <<"n", "o", "n", "e">>
ShuffleMark == <<"+", "s", "h", ":">>
\* (mutant: the except branch resets item_size only)
SizesPartialFallback(c, w, h, bpp) ==
    LET fallback == [uncompressed_size |-> w * h * bpp, item_size |-> 1]
        parts == Split(c, ShuffleMark)
        fields == IF Len(parts) = 2 THEN Split(parts[2], <<":">>) ELSE <<>>
    IN IF c = None \/ Len(parts) # 2 THEN fallback
       ELSE IF ~ParseInt(fields[1]).ok THEN fallback
       ELSE IF Len(fields) < 2 \/ ~ParseInt(fields[2]).ok
       THEN [uncompressed_size |-> ParseInt(fields[1]).val, item_size |-> 1]
       ELSE [uncompressed_size |-> ParseInt(fields[1]).val,
             item_size |-> ParseInt(fields[2]).val]
\* (mutant: the shuffle suffix is not read)
SizesFromGeometry(c, w, h, bpp) ==
    [uncompressed_size |-> w * h * bpp, item_size |-> 1]
\* lines 62-76: uncompressed_size and item_size from the "+sh:" suffix; the
\* except branch assigns both anew
Sizes(c, w, h, bpp) ==
    LET fallback == [uncompressed_size |-> w * h * bpp, item_size |-> 1]
        parts == Split(c, ShuffleMark)
        fields == IF Len(parts) = 2 THEN Split(parts[2], <<":">>) ELSE <<>>
    IN IF c = None \/ Len(parts) # 2 THEN fallback
       ELSE IF ~ParseInt(fields[1]).ok THEN fallback
       ELSE IF Len(fields) < 2 \/ ~ParseInt(fields[2]).ok THEN fallback
       ELSE [uncompressed_size |-> ParseInt(fields[1]).val,
             item_size |-> ParseInt(fields[2]).val]

\* parse_xisf_header on an XML block whose Image element (x.image: there is
\* one) has the attributes x.geometry, x.sampleFormat, x.compression and
\* x.location
Raise(what) == [kind |-> "raise", what |-> what]
parse_xisf_header(x) ==
    LET g == Geometry(x.geometry)
        l == Location(x.location)
        bpp == BytesPerPixel(x.sampleFormat)
        c == Lower(IF x.compression = Absent THEN None ELSE x.compression)
        z == Sizes(c, g.w, g.h, bpp)
    IN IF ~x.image THEN Raise("no Image element")
       ELSE IF ~g.ok THEN Raise("geometry")
       ELSE IF ~l.ok THEN Raise("location")
       ELSE IF bpp = 0 THEN Raise("sampleFormat")
       ELSE [kind |-> "header", width |-> g.w, height |-> g.h,
             channels |-> g.c,
             sample_format |-> IF x.sampleFormat = Absent THEN UInt16
                               ELSE x.sampleFormat,
             compression |-> c, offset |-> l.offset,
             compressed_size |-> l.size,
             uncompressed_size |-> z.uncompressed_size,
             item_size |-> z.item_size]

(* ------------------- unshuffle_uint16 and the decode -------------------- *)
\* a bytes object is the sequence of its bytes (0 .. 255)
\* (mutant: the first half taken as the high bytes)
unshuffle_uint16_swapped(data) ==
    LET n == Len(data) \div 2
        high == SubSeq(data, 1, n)
        low == SubSeq(data, n + 1, 2 * n)
        combined == [i \in 1..n |-> (low[i] + high[i] * 256) % 65536]
    IN [k \in 1..(2 * n) |->
           IF k % 2 = 1 THEN combined[(k + 1) \div 2] % 256
           ELSE combined[k \div 2] \div 256]
\* unshuffle_uint16: n = size // 2, the two halves of n bytes, low + (high << 8)
\* in uint16, and tobytes() of the uint16 array (little-endian)
unshuffle_uint16(data) ==
    LET n == Len(data) \div 2
        low == SubSeq(data, 1, n)
        high == SubSeq(data, n + 1, 2 * n)
        combined == [i \in 1..n |-> (low[i] + high[i] * 256) % 65536]
    IN [k \in 1..(2 * n) |->
           IF k % 2 = 1 THEN combined[(k + 1) \div 2] % 256
           ELSE combined[k \div 2] \div 256]

\* file_bytes[offset : offset + size], `rest` being the file from offset on
Slice(rest, size) ==
    SubSeq(rest, 1, IF size < Len(rest) THEN size ELSE Len(rest))

\* lines 645-654 of load_xisf_file (and 513-521 of _get_raw_image_data): the
\* bytes recovered from the file, then np.frombuffer(...).reshape. x.stored
\* is the file from the offset on for compression "none", else the bytes the
\* LZ4 block encodes; x.whole: the file holds the block to its end.
\* lz4.block.decompress raises on a block that is cut and on one that
\* encodes more than uncompressed_size bytes.
decode_payload(x) ==
    LET plain == x.compression = None
        fails == ~plain /\ (~x.whole \/ Len(x.stored) > x.uncompressed_size)
        data == IF plain THEN Slice(x.stored, x.compressed_size)
                ELSE IF Split(x.compression, ShuffleMark) # <<x.compression>>
                THEN unshuffle_uint16(x.stored)
                ELSE x.stored
    IN IF fails THEN Raise("decompress")
       ELSE IF Len(data) % 2 # 0 THEN Raise("frombuffer")
       ELSE IF Len(data) \div 2 # x.height * x.width THEN Raise("reshape")
       ELSE [kind |-> "image",
             samples |-> [i \in 1..(Len(data) \div 2) |->
                             data[2 * i - 1] + 256 * data[2 * i]]]

(* ------------------- float32 samples and normalisation ------------------ *)
\* A float32 is written as the whole number of units of 2^-30 it holds, so
\* that One is 1.0 and Half is 0.5; sums, differences, products and quotients
\* are rounded as the hardware rounds them (to nearest, ties to even, with a
\* significand of MantissaBits bits).  A sample is such a number or NaN.
MantissaBits == 24
One == 2 ^ 30
Half == One \div 2
NaN == [nan |-> TRUE, v |-> 0]
Num(v) == [nan |-> FALSE, v |-> v]
Magnitude(n) == IF n < 0 THEN 0 - n ELSE n
RECURSIVE BitLength(_)
BitLength(n) == IF n = 0 THEN 0 ELSE 1 + BitLength(n \div 2)
\* the float32 nearest to n units and a fraction of a unit (more is TRUE when
\* the exact value lies strictly above n units in magnitude)
Nearest(n, more) ==
    LET m == Magnitude(n)
        s == BitLength(m) - MantissaBits
        q == m \div (2 ^ s)
        r == m % (2 ^ s)
        up == \/ 2 * r > 2 ^ s
              \/ 2 * r = 2 ^ s /\ (more \/ q % 2 = 1)
        v == (IF up THEN q + 1 ELSE q) * (2 ^ s)
    IN IF s <= 0 THEN n ELSE IF n < 0 THEN 0 - v ELSE v
Float32(n) == Nearest(n, FALSE)
\* k / d for 0 <= k <= d by long division: the quotient in units and the
\* remainder that is left
RECURSIVE LongDivision(_, _, _, _)
LongDivision(rem, d, steps, acc) ==
    IF steps = 0 THEN [q |-> acc, rem |-> rem]
    ELSE IF 2 * rem >= d THEN LongDivision(2 * rem - d, d, steps - 1, 2 * acc + 1)
         ELSE LongDivision(2 * rem, d, steps - 1, 2 * acc)
\* the float32 quotient of two whole numbers 0 <= k <= d (a quotient below
\* 2^-6 that is not a whole number of units is left as a term)
Divide(k, d) ==
    LET e == LongDivision(k, d, 30, 0)
    IN IF e.rem = 0 THEN Float32(e.q)
       ELSE IF BitLength(e.q) > MantissaBits THEN Nearest(e.q, TRUE)
       ELSE [fn |-> "divide", k |-> k, d |-> d]
Finite(arr) == {arr[i].v : i \in {j \in DOMAIN arr : ~arr[j].nan}}
Least(S) == CHOOSE x \in S : \A y \in S : x <= y
Greatest(S) == CHOOSE x \in S : \A y \in S : y <= x
\* np.nanmin / np.nanmax: NaN when every sample is NaN; .min() / .max() of a
\* uint16 array, which holds no NaN, are the same
nanmin(arr) == IF Finite(arr) = {} THEN NaN ELSE Num(Least(Finite(arr)))
nanmax(arr) == IF Finite(arr) = {} THEN NaN ELSE Num(Greatest(Finite(arr)))
\* img_norm of load_xisf_file and load_fits_file; "img_max > img_min" is
\* false when either is NaN, and NaN minus or over a number is NaN
normalize(arr) ==
    LET img_min == nanmin(arr)
        img_max == nanmax(arr)
    IN IF ~img_min.nan /\ img_max.v > img_min.v
       THEN [i \in DOMAIN arr |->
                IF arr[i].nan THEN NaN
                ELSE Num(Divide(arr[i].v - img_min.v, img_max.v - img_min.v))]
       ELSE [i \in DOMAIN arr |-> Num(0)]

(* ----------------------- the tone map in float32 ------------------------ *)
\* np.clip(x, 0, 1)
Clip(x) == IF x < 0 THEN 0 ELSE IF x > One THEN One ELSE x
\* the product of a float32 with a slider value given in tenths; for a whole
\* slider value the exact product is a whole number of units (else a term)
Times(x, tenths) ==
    IF tenths % 10 = 0 THEN Float32(x * (tenths \div 10))
    ELSE [fn |-> "multiply", x |-> x, by |-> tenths]
\* asinh_stretch on one sample: the sample itself when the factor is not
\* positive, else the quotient of two arcsinh values (a term)
asinh_stretch(x, stretch_factor) ==
    IF stretch_factor <= 0 THEN x
    ELSE [fn |-> "arcsinh", x |-> x, by |-> stretch_factor]
\* np.power(x, 1/gamma): the exponent is 1.0 when gamma is 1.0, and the power
\* of a float32 by 1.0 is that float32 (else a term)
Power(x, gamma) ==
    IF gamma = 10 THEN x ELSE [fn |-> "power", x |-> x, by |-> gamma]
\* the four statements of update_display_image on one sample, each operation
\* rounded; par = <<effective_stretch, gamma, brightness, contrast>>
tone_map_sample(x, par) ==
    LET stretched == asinh_stretch(x, par[1])
        powered == Power(stretched, par[2])
        bright == Clip(Times(powered, par[3]))
    IN Clip(Float32(Times(Float32(bright - Half), par[4]) + Half))
\* NaN stays NaN through every step
tone_map(img, par) ==
    [i \in DOMAIN img |->
        IF img[i].nan THEN NaN ELSE Num(tone_map_sample(img[i].v, par))]

(* --------------------------- initial states ----------------------------- *)
\* no function is being called on its own
NoInput == [fn |-> "none"]
NoOutput == [kind |-> "none"]

\* XISFViewer.__init__ over the files d, with the threads the run may start
Constructed(d, threads, rec) ==
    /\ disk = d /\ dialog = {} /\ log = {}
    /\ current_folder = "none" /\ active_files = <<>> /\ pretrash_files = <<>>
    /\ current_file = NoPath /\ current_index = NoIndex
    /\ original_img_norm = NoImg /\ xml_header = NoHeader /\ cache = <<>>
    /\ last_transform_params = NoParams /\ cached_transformed = NoTransformed
    /\ preview_cache = {} /\ displaying_preview = FALSE
    /\ preview_generation_in_progress = FALSE
    /\ sliders = <<10, 1000, 7, 10, 15>>
    /\ active_sel = {} /\ pretrash_sel = {}
    /\ display = NoDisplay /\ status_label = <<"", 0, 0>>
    /\ udi = [outcome |-> "none", layout |-> "none"]
    /\ bg = [t \in threads |-> IdleThread]
    /\ recency = rec /\ puts = <<>>
    /\ adjusted = NoPath
    /\ input = NoInput /\ output = NoOutput

\* a folder "A" of n files lying in the folder itself, each with a short XML
\* block and IMAGETYP LIGHT
FilesOf(n) == {<<"A", k>> : k \in 1..n}
States(id) == IF id[2] % 2 = 0 THEN {"ok", "corrupt", "nodata", "rgb", "cube"}
              ELSE {"ok", "corrupt"}
GoodDisk(n) ==
    [id \in FilesOf(n) |->
        [loc |-> "main", st |-> "ok", hdr |-> "LIGHT", xml_len |-> 1024]]

(* ------------------------------ actions --------------------------------- *)
\* the state a foreground handler starts from: no message box shown yet
Begin == [Self EXCEPT !.dialog = {}]

\* the operator picks one of the folders that hold image files
OpenFolder ==
    \E f \in {id[1] : id \in DOMAIN disk} : Store(open_folder_dialog(Begin, f))
NavigateUp == \E s \in {navigate_up(Begin)} : Store(s)
NavigateDown == \E s \in {navigate_down(Begin)} : Store(s)
SkipUp == \E s \in {skip_up(Begin)} : Store(s)
SkipDown == \E s \in {skip_down(Begin)} : Store(s)
ClickActive ==
    \E idx \in 0..(Len(active_files) - 1) :
        Store(on_active_file_activate(Begin, idx))
ClickPretrash ==
    \E idx \in 0..(Len(pretrash_files) - 1) :
        Store(on_pretrash_file_activate(Begin, idx))

SliderRelease == \E s \in {on_slider_release(Begin)} : Store(s)
\* a slider is moved with the keyboard or dragged: its value changes and no
\* handler runs
SliderSettings == {Preset("0"), Preset("1")}
SliderDrag ==
    \E v \in SliderSettings \ {sliders} : Store([Begin EXCEPT !.sliders = v])
ApplyPreset == \E s \in {apply_preset(Begin, k) : k \in {"0", "1"}} : Store(s)
\* <Configure> on the image label
Configure == \E s \in {update_display_image(Begin)} : Store(s)
Dump ==
    \E fails \in SUBSET Range(active_files) : Store(dump_active_file(Begin, fails))
Restore ==
    \E fails \in SUBSET Range(pretrash_files) :
        Store(restore_pretrash_file(Begin, fails))
EditHeaders ==
    \E v \in {"LIGHT", "DARK"}, fails \in SUBSET Range(active_files) :
        Store(edit_fits_headers(Begin, v, fails))
CreatePreviews ==
    \E t \in DOMAIN bg :
        /\ PreviewRefusal(Self) = "none" => t \in IdleThreads(Self)
        /\ Store(create_previews_for_current_folder(Begin, t))

\* the steps of the thumbnail threads
At(t, pc) == bg[t].pc = pc
BgBegin == \E t \in DOMAIN bg : At(t, "started") /\ Store(ThreadBegin(Self, t))
BgTotal == \E t \in DOMAIN bg : At(t, "total") /\ Store(ThreadTotal(Self, t))
BgIter == \E t \in DOMAIN bg : At(t, "iter") /\ Store(ThreadIter(Self, t))
BgNext == \E t \in DOMAIN bg : At(t, "loop") /\ Store(ThreadNext(Self, t))
BgBody == \E t \in DOMAIN bg : At(t, "body") /\ Store(ThreadBody(Self, t))
BgCreate ==
    \E t \in DOMAIN bg : At(t, "create") /\ Store(create_single_preview(Self, t))
BgPublish ==
    \E t \in DOMAIN bg : At(t, "publish") /\ Store(ThreadPublish(Self, t))
BgReturned ==
    \E t \in DOMAIN bg : At(t, "returned") /\ Store(ThreadReturned(Self, t))
BgFinish == \E t \in DOMAIN bg : At(t, "finish") /\ Store(ThreadFinish(Self, t))
BgPost == \E t \in DOMAIN bg : At(t, "post") /\ Store(ThreadPost(Self, t))
BgPostSet ==
    \E t \in DOMAIN bg : At(t, "post_set") /\ Store(ThreadPostSet(Self, t))
BgPostUpdate ==
    \E t \in DOMAIN bg : At(t, "post_update") /\ Store(ThreadPostUpdate(Self, t))
Background ==
    \/ BgBegin \/ BgTotal \/ BgIter \/ BgNext \/ BgBody \/ BgCreate
    \/ BgPublish \/ BgReturned \/ BgFinish \/ BgPost \/ BgPostSet
    \/ BgPostUpdate

(* ----------------- browsing a folder larger than the cache -------------- *)
InitLRU == Constructed(GoodDisk(CacheCapacity + ExtraFiles), {1}, Void)
NextLRU ==
    \/ OpenFolder
    \/ NavigateUp
    \/ NavigateDown
    \/ SkipUp
    \/ SkipDown
    \/ ClickActive
SpecLRU == InitLRU /\ [][NextLRU]_vars

\* the same, recording which key was inserted or read least recently
InitRecency == Constructed(GoodDisk(CacheCapacity + ExtraFiles), {1}, <<>>)
SpecRecency == InitRecency /\ [][NextLRU]_vars


(* ------------------------ the foreground handlers ----------------------- *)
\* the disks over a set of files: every file lies in its folder with IMAGETYP
\* LIGHT, and may be one the decoders reject
Disks(files) ==
    {d \in [files -> [loc : {"main"},
                      st : {"ok", "corrupt", "nodata", "rgb", "cube"},
                      hdr : {"LIGHT"}, xml_len : {1024}]] :
        \A id \in files : d[id].st \in States(id)}

\* folder "A" holds NumFiles files (odd names XISF, even names FITS); no
\* thumbnail run is started
Init == \E d \in Disks(FilesOf(NumFiles)) : Constructed(d, {1}, Void)
Next ==
    \/ OpenFolder \/ NavigateUp \/ NavigateDown \/ SkipUp \/ SkipDown
    \/ ClickActive \/ ClickPretrash
    \/ SliderRelease \/ SliderDrag \/ ApplyPreset \/ Configure
    \/ Dump \/ Restore \/ EditHeaders
Spec == Init /\ [][Next]_vars

(* ------------- a thumbnail run beside the foreground handlers ----------- *)
\* folder "A" as above and a folder "B" of one good file
InitBg ==
    \E d \in Disks(FilesOf(NumFiles) \cup {<<"B", 1>>}) :
        d[<<"B", 1>>].st = "ok" /\ Constructed(d, {1}, Void)
NextBg ==
    \/ OpenFolder \/ NavigateDown \/ ClickActive
    \/ SliderRelease \/ SliderDrag
    \/ CreatePreviews
    \/ Background
SpecBg == InitBg /\ [][NextBg]_vars

(* ------------------- a thumbnail run left undisturbed ------------------- *)
\* the operator opens the folder and starts runs, and touches nothing while
\* a run is under way
Quiet == \A t \in DOMAIN bg : bg[t].pc = "idle"
OpenFolderQuiet == Quiet /\ OpenFolder
InitThumb == \E d \in Disks(FilesOf(ThumbFiles)) : Constructed(d, {1}, Void)
NextThumb == OpenFolderQuiet \/ CreatePreviews \/ Background
SpecThumb == InitThumb /\ [][NextThumb]_vars

(* ---------------- skipping through a thumbnailed folder ----------------- *)
\* the operator opens the folder, starts runs and moves through the list
\* with Q, A and the arrow key while or after a run is under way
NextSkip ==
    \/ OpenFolderQuiet \/ CreatePreviews \/ Background
    \/ SkipUp \/ SkipDown \/ NavigateDown
SpecSkip == InitThumb /\ [][NextSkip]_vars

(* --------------- files moved while a thumbnail run is under way --------- *)
\* the operator opens a folder of NumFiles good files, starts a run in the
\* folder as it was opened, and moves files to PRETRASH and back while the
\* run is under way; a move may fail
Fresh == preview_cache = {} /\ pretrash_files = <<>>
StartRun == Quiet /\ Fresh /\ CreatePreviews
ClickPretrashBusy == ~Quiet /\ ClickPretrash
DumpBusy == ~Quiet /\ Dump
RestoreBusy == ~Quiet /\ Restore
NextMove ==
    \/ OpenFolderQuiet \/ StartRun \/ Background
    \/ ClickPretrashBusy \/ DumpBusy \/ RestoreBusy
InitMove == Constructed(GoodDisk(NumFiles), {1}, Void)
SpecMove == InitMove /\ [][NextMove]_vars
\* the same under fair scheduling: a thread that can take its next step
\* takes it in the end, whatever the operator does meanwhile
SpecMoveFair == SpecMove /\ WF_vars(Background)

(* ------------------- the index into the active list --------------------- *)
\* the operator opens a folder of IndexFiles good files, moves files to
\* PRETRASH and back, selects in the PRETRASH list and navigates; no move fails
DumpMoves == \E s \in {dump_active_file(Begin, {})} : Store(s)
RestoreMoves == \E s \in {restore_pretrash_file(Begin, {})} : Store(s)
InitIndex == Constructed(GoodDisk(IndexFiles), {1}, Void)
NextIndex ==
    \/ OpenFolder \/ NavigateUp \/ NavigateDown \/ SkipUp \/ SkipDown
    \/ ClickPretrash \/ DumpMoves \/ RestoreMoves
SpecIndex == InitIndex /\ [][NextIndex]_vars

(* ------------------------ repeated requests ----------------------------- *)
\* the operator opens a folder of NumFiles good files and presses 'c' as
\* often and as early as they like; each request that is accepted starts a
\* thread of its own
InitTwo == Constructed(GoodDisk(NumFiles), {1, 2}, Void)
NextTwo == OpenFolderQuiet \/ CreatePreviews \/ Background
SpecTwo == InitTwo /\ [][NextTwo]_vars

(* -------------------- metadata blocks of any length --------------------- *)
\* a folder of ThumbFiles good files whose XML block ends within the first
\* HeaderReadLimit bytes of the file or one byte beyond them
HeaderDisks ==
    [FilesOf(ThumbFiles) ->
        [loc : {"main"}, st : {"ok"}, hdr : {"LIGHT"},
         xml_len : {HeaderReadLimit, HeaderReadLimit + 1}]]
InitHeader == \E d \in HeaderDisks : Constructed(d, {1}, Void)
NextHeader ==
    \/ OpenFolder \/ NavigateUp \/ NavigateDown \/ SkipUp \/ SkipDown
    \/ ClickActive
SpecHeader == InitHeader /\ [][NextHeader]_vars

(* ----------------------- parse_xisf_header alone ------------------------ *)
\* str(n)
DigitChars == <<"0", "1", "2", "3", "4", "5", "6", "7", "8", "9">>
RECURSIVE Decimal(_)
Decimal(n) ==
    IF n < 0 THEN <<"-">> \o Decimal(0 - n)
    ELSE IF n < 10 THEN <<DigitChars[n + 1]>>
    ELSE Decimal(n \div 10) \o <<DigitChars[(n % 10) + 1]>>
\* sep.join(parts)
RECURSIVE Join(_, _)
Join(parts, sep) ==
    IF Len(parts) = 1 THEN parts[1]
    ELSE parts[1] \o sep \o Join(Tail(parts), sep)
Colon(parts) == Join(parts, <<":">>)

\* the attribute values the parser is run on
Sides == {4, 50, 100}
Channels == {1, 3}
GeometryFields == {Decimal(n) : n \in Sides \cup {0, -4}} \cup {<<"x">>}
ChannelFields == {Decimal(n) : n \in Channels \cup {0}} \cup {<<"x">>}
Geometries ==
    {Colon(<<a, b, c>>) : a \in GeometryFields, b \in GeometryFields,
                          c \in ChannelFields}
    \cup {Absent, Colon(<<Decimal(4), Decimal(4)>>),
          Colon(<<Decimal(4), Decimal(4), Decimal(1), Decimal(1)>>)}
SampleFormats ==
    {Absent, UInt16, <<"u", "i", "n", "t", "1", "6">>,
     <<"U", "I", "n", "t", "8">>, <<"F", "l", "o", "a", "t", "3", "2">>}
Tags == {<<"l", "z", "4">>, <<"z", "l", "i", "b">>}
SuffixSizes == {8, 20000}
ItemSizes == {1, 2}
Shuffled(tag, u, i) == tag \o ShuffleMark \o Colon(<<Decimal(u), Decimal(i)>>)
\* a compression other than "none" whose suffix is missing, lacks a field,
\* has a field that is no integer, or comes twice
BadSuffixes ==
    Tags
    \cup {<<"l", "z", "4">> \o ShuffleMark,
          <<"l", "z", "4">> \o ShuffleMark \o Decimal(20000),
          <<"l", "z", "4">> \o ShuffleMark \o Colon(<<<<"x">>, Decimal(2)>>),
          <<"l", "z", "4">> \o ShuffleMark \o Colon(<<Decimal(20000), <<"x">>>>),
          <<"l", "z", "4">> \o ShuffleMark \o Colon(<<Decimal(20000), <<>>>>),
          Shuffled(<<"l", "z", "4">>, 20000, 2) \o ShuffleMark
              \o Colon(<<Decimal(8), Decimal(1)>>)}
Compressions ==
    {Absent, None, <<"L", "Z", "4">> \o <<"+", "S", "H", ":">>
                       \o Colon(<<Decimal(20000), Decimal(2)>>)}
    \cup {Shuffled(tag, u, i) : tag \in Tags, u \in SuffixSizes, i \in ItemSizes}
    \cup BadSuffixes
Offsets == {0, 128}
BlockSizes == {8, 10000}
Locations ==
    {Colon(<<Attachment, Decimal(o), Decimal(z)>>) : o \in Offsets, z \in BlockSizes}
    \cup {Absent, Attachment, Colon(<<Attachment, Decimal(128)>>),
          Colon(<<Attachment, <<"x">>, Decimal(8)>>),
          Colon(<<<<"A">> \o Tail(Attachment), Decimal(0), Decimal(8)>>),
          Colon(<<<<"i", "n", "l", "i", "n", "e">>, <<"b", "a", "s", "e", "6", "4">>>>),
          <<"u", "r", "l", "(", "x", ")">>}
HeaderInputs ==
    [fn : {"parse_xisf_header"}, image : {TRUE}, geometry : Geometries,
     sampleFormat : SampleFormats, compression : Compressions,
     location : Locations]
    \cup {[fn |-> "parse_xisf_header", image |-> FALSE,
           geometry |-> Colon(<<Decimal(4), Decimal(4), Decimal(1)>>),
           sampleFormat |-> UInt16, compression |-> None,
           location |-> Colon(<<Attachment, Decimal(0), Decimal(8)>>)]}

\* the viewer as constructed, and one call of a function of the module
Called(x) ==
    /\ disk = GoodDisk(0) /\ dialog = {} /\ log = {}
    /\ current_folder = "none" /\ active_files = <<>> /\ pretrash_files = <<>>
    /\ current_file = NoPath /\ current_index = NoIndex
    /\ original_img_norm = NoImg /\ xml_header = NoHeader /\ cache = <<>>
    /\ last_transform_params = NoParams /\ cached_transformed = NoTransformed
    /\ preview_cache = {} /\ displaying_preview = FALSE
    /\ preview_generation_in_progress = FALSE
    /\ sliders = <<10, 1000, 7, 10, 15>>
    /\ active_sel = {} /\ pretrash_sel = {}
    /\ display = NoDisplay /\ status_label = <<"", 0, 0>>
    /\ udi = [outcome |-> "none", layout |-> "none"]
    /\ bg = [t \in {1} |-> IdleThread]
    /\ recency = Void /\ puts = <<>> /\ adjusted = NoPath
    /\ input = x /\ output = NoOutput
\* the variables of the viewer, which a call of a pure function leaves alone
viewer ==
    <<disk, dialog, log, current_folder, active_files, pretrash_files,
      current_file, current_index, original_img_norm, xml_header, cache,
      last_transform_params, cached_transformed, preview_cache,
      displaying_preview, preview_generation_in_progress, sliders,
      active_sel, pretrash_sel, display, status_label, udi, bg,
      recency, puts, adjusted>>
Returns(fn, y) ==
    /\ input.fn = fn /\ output = NoOutput
    /\ output' = y
    /\ UNCHANGED <<viewer, input>>

InitParse == \E x \in HeaderInputs : Called(x)
ParseHeader ==
    \E y \in {parse_xisf_header(input)} : Returns("parse_xisf_header", y)
SpecParse == InitParse /\ [][ParseHeader]_vars

(* ------------------- the decode of a payload alone ---------------------- *)
\* images of up to MaxSide x MaxSide samples; payloads of one byte more than
\* the largest of them needs
BytesOf(n) == {[i \in 1..n |-> IF i = 1 THEN 1 ELSE 0]}
Lz4 == <<"l", "z", "4">>
Lz4Shuffled == Shuffled(Lz4, 2 * MaxSide * MaxSide, 2)
PayloadInputs ==
    [fn : {"decode_payload"}, height : 1..MaxSide, width : 1..MaxSide,
     compression : {None, Lz4, Lz4Shuffled},
     stored : UNION {BytesOf(n) : n \in 0..(2 * MaxSide * MaxSide + 1)},
     compressed_size : {0, 2, 2 * MaxSide * MaxSide, 2 * MaxSide * MaxSide + 1},
     uncompressed_size : {2, 2 * MaxSide * MaxSide, 2 * MaxSide * MaxSide + 1},
     whole : BOOLEAN]
InitDecode == \E x \in PayloadInputs : Called(x)
DecodePayload == \E y \in {decode_payload(input)} : Returns("decode_payload", y)
SpecDecode == InitDecode /\ [][DecodePayload]_vars

(* ------------------------ unshuffle_uint16 alone ------------------------ *)
\* the byte-plane shuffle of an even-length buffer: the low bytes of its
\* 16-bit little-endian samples, then the high bytes
Shuffle(x) ==
    LET n == Len(x) \div 2
    IN [k \in 1..Len(x) |-> IF k <= n THEN x[2 * k - 1] ELSE x[2 * (k - n)]]
ByteValues == {0, 1, 255}
Buffers == UNION {[1..(2 * n) -> ByteValues] : n \in 0..MaxSamples}
InitShuffle ==
    \E x \in Buffers :
        Called([fn |-> "unshuffle_uint16", x |-> x, data |-> Shuffle(x)])
Unshuffle ==
    \E y \in {[kind |-> "bytes", data |-> unshuffle_uint16(input.data)]} :
        Returns("unshuffle_uint16", y)
SpecShuffle == InitShuffle /\ [][Unshuffle]_vars

(* -------------------------- normalisation alone ------------------------- *)
\* raw images of up to MaxPixels samples with values up to MaxRaw: uint16
\* arrays (XISF) and float32 arrays, NaN among their samples (FITS)
RawValues == {Num(v) : v \in 0..MaxRaw}
Uint16Images == UNION {[1..n -> RawValues] : n \in 1..MaxPixels}
Float32Images == UNION {[1..n -> RawValues \cup {NaN}] : n \in 1..MaxPixels}
InitNorm ==
    \E arr \in Float32Images :
        Called([fn |-> "normalize", arr |-> arr])
Normalize ==
    \E y \in {[kind |-> "image", samples |-> normalize(input.arr)]} :
        Returns("normalize", y)
SpecNorm == InitNorm /\ [][Normalize]_vars

(* --------------------------- the tone map alone ------------------------- *)
\* stretch 0, gamma 1.0, brightness 1.0 and contrast 1.0 or 2.0 on the
\* normalised image of an uncompressed 16-bit container
IdentityParams == <<0, 10, 10, 10>>
ToneParams == {IdentityParams, <<0, 10, 10, 20>>}
InitTone ==
    \E arr \in Uint16Images, par \in ToneParams :
        Called([fn |-> "tone_map", arr |-> arr, img |-> normalize(arr), par |-> par])
ToneMapImage ==
    \E y \in {[kind |-> "image", samples |-> tone_map(input.img, input.par)]} :
        Returns("tone_map", y)
SpecTone == InitTone /\ [][ToneMapImage]_vars

(* ------------------------------ claims ---------------------------------- *)
\* C2: after every completed load, and in every state between operations,
\* the decoded-image cache holds at most 5 entries.
C2_CacheWithinCapacity == Len(cache) <= CacheCapacity
\* a load has evicted: the cache is full and the first file opened is gone
C2_Witness ==
    /\ Len(cache) = CacheCapacity
    /\ current_file \in CacheKeys(cache)
    /\ PathOf("A", "main", 1) \notin CacheKeys(cache)

\* C3: eviction is strict least-recently-inserted-or-accessed: an insert
\* into a full cache removes the key whose last insert or read is the oldest
\* (so a key just read from the cache is not the next one evicted).
C3_Evicts ==
    /\ Len(cache) = CacheCapacity /\ Len(cache') = CacheCapacity
    /\ CacheKeys(cache') # CacheKeys(cache)
C3_EvictsLeastRecentlyUsed ==
    [][C3_Evicts => CacheKeys(cache) \ CacheKeys(cache') = {Head(recency)}]_vars

\* C4: from an empty cache, after 6 successful decodes of distinct paths and
\* nothing else done to the cache, the first path is absent and the other 5
\* are present.
C4_FirstOutOthersIn ==
    (puts # Void /\ Len(puts) = CacheCapacity + 1) =>
        /\ puts[1] \notin CacheKeys(cache)
        /\ \A i \in 2..Len(puts) : puts[i] \in CacheKeys(cache)
C4_Witness ==
    /\ puts # Void /\ Len(puts) = CacheCapacity + 1
    /\ Cardinality(Range(puts)) = CacheCapacity + 1

\* C1: the thumbnail thread never writes self.cache, last_transform_params
\* or cached_transformed: a step of _cache_previews_thread_target, from its
\* first statement to its return, leaves the three unchanged.
ThreadStepped ==
    \E t \in DOMAIN bg : bg[t].pc # "idle" /\ bg'[t].pc # bg[t].pc
C1_ThreadLeavesCachesAlone ==
    [][ThreadStepped =>
          UNCHANGED <<cache, last_transform_params, cached_transformed>>]_vars

\* C5: once open_folder_dialog has switched the folder and cleared the
\* preview store, the store holds no preview of a file of another folder
\* (a run started for the previous folder publishes nothing).
C5_NoPreviewOfAnotherFolder ==
    \A p \in preview_cache : FoldOf(p) = current_folder

\* C6: when _create_single_preview has met an exception, it has returned
\* False to the loop (the thread lives on) and the preview store has no
\* entry for the file.
C6_FailedPreviewLeavesNoEntry ==
    \A t \in DOMAIN bg :
        (bg[t].pc = "returned" /\ PreviewRaises(disk, bg[t].file)) =>
            /\ ~bg[t].ret
            /\ bg[t].file \notin preview_cache
\* a preview has failed after another one was stored
C6_Witness ==
    \E t \in DOMAIN bg :
        /\ bg[t].pc = "returned" /\ ~bg[t].ret
        /\ PreviewRaises(disk, bg[t].file)
        /\ NameOf(bg[t].file) \in log
        /\ preview_cache # {}

\* C7: a run nobody interferes with visits every file of the list whatever
\* fails on the way: when it ends, the preview store holds exactly the files
\* whose preview could be made, the status counts them, and every other
\* file was reported (3 files with file 2 corrupt: 2 entries, 1 failure).
Previewable == {p \in Range(active_files) : ~PreviewRaises(disk, p)}
C8_NoImageOlderThanHeader ==
    \A i \in 1..Len(cache) :
        LET p == cache[i].path
        IN (DirOf(p) = "main" /\ Exists(disk, p)) =>
               cache[i].img.hdr = disk[FileId(p)].hdr
\* the header of the file shown was rewritten and the file decoded afresh
C8_Witness ==
    /\ <<"Header changes applied", NoPath>> \in dialog
    /\ current_file # NoPath /\ Exists(disk, current_file)
    /\ disk[FileId(current_file)].hdr = "DARK"
    /\ current_file \in CacheKeys(cache)
    /\ CacheGet(cache, current_file).hdr = "DARK"
    /\ Len(cache) > 1

\* C9: a load whose decode fails inserts nothing: for every listed file the
\* decoders reject, the load leaves the decoded-image cache exactly as it
\* was, without the path, and shows an error box; when the decode raised,
\* no image is kept and the label is cleared.
Listed == Range(active_files) \cup Range(pretrash_files)
Rejected(d, p) ==
    DecodeRaises(d, p) \/ (IsFits(p) /\ d[FileId(p)].st = "nodata")
C9_FailedDecodeLeavesCache ==
    \A p \in Listed :
        (p \notin CacheKeys(cache) /\ Rejected(disk, p)) =>
            LET r == LoadFile(Begin, p)
            IN /\ r.cache = cache
               /\ p \notin CacheKeys(r.cache)
               /\ \E m \in r.dialog : m[2] = p
               /\ DecodeRaises(disk, p) =>
                      r.original_img_norm = NoImg /\ r.display = NoDisplay
\* a load has failed beside a cache that holds other files
C9_Witness ==
    /\ \E m \in dialog :
           /\ m[1] \in {"Failed to open XISF file", "Failed to open FITS file"}
           /\ m[2] = current_file
    /\ current_file \notin CacheKeys(cache)
    /\ original_img_norm = NoImg
    /\ cache # <<>>

\* C10: update_display_image handed an array that is neither 2-D nor 3-D
\* with 3 channels ends in an error, not in a cleared label.
C10_BadLayoutIsAnError ==
    udi.layout \notin {"gray", "rgb", "none"} => udi.outcome = "error"

\* C11: parse_xisf_header returns a header only when width, height and
\* channels are all greater than 0 (a malformed or non-positive geometry
\* makes it fail).
C11_GeometryIsPositive ==
    output.kind = "header" =>
        output.width > 0 /\ output.height > 0 /\ output.channels > 0

\* C12: the decode of a container succeeds only when the payload recovered
\* from the file (the bytes sliced, or the bytes decompressed, before any
\* unshuffling) is exactly height*width*2 bytes long; every other length,
\* an odd-length shuffled buffer included, makes it fail.
PayloadLength(x) ==
    IF x.compression = None
    THEN (IF x.compressed_size < Len(x.stored) THEN x.compressed_size
          ELSE Len(x.stored))
    ELSE Len(x.stored)
C12_ExactPayloadOnly ==
    (input.fn = "decode_payload" /\ output.kind = "image") =>
        PayloadLength(input) = input.height * input.width * 2

\* C13: for geometry "W:H:C", sampleFormat "UInt16", compression "none" and
\* location "attachment:O:S", parse_xisf_header returns width W, height H,
\* channels C, offset O, compressed_size S and uncompressed_size W*H*2.
Parsed == input.fn = "parse_xisf_header" /\ output # NoOutput
C13_PlainHeaderFields ==
    \A W \in Sides, H \in Sides, C \in Channels, O \in Offsets, S \in BlockSizes :
        ( /\ Parsed /\ input.image
          /\ input.geometry = Colon(<<Decimal(W), Decimal(H), Decimal(C)>>)
          /\ input.sampleFormat = UInt16
          /\ input.compression = None
          /\ input.location = Colon(<<Attachment, Decimal(O), Decimal(S)>>) )
        => /\ output.kind = "header"
           /\ output.width = W /\ output.height = H /\ output.channels = C
           /\ output.offset = O /\ output.compressed_size = S
           /\ output.uncompressed_size = W * H * 2
\* the header with geometry 100:50:1 at attachment:128:10000 was parsed
C13_Witness ==
    /\ Parsed /\ input.compression = None /\ input.sampleFormat = UInt16
    /\ input.geometry = Colon(<<Decimal(100), Decimal(50), Decimal(1)>>)
    /\ input.location = Colon(<<Attachment, Decimal(128), Decimal(10000)>>)
    /\ output.kind = "header"
    /\ output.width = 100 /\ output.height = 50 /\ output.channels = 1
    /\ output.offset = 128 /\ output.compressed_size = 10000

\* C14: for a compression "<tag>+sh:<U>:<I>" a header that is returned has
\* uncompressed_size U and item_size I, whatever the geometry.
C14_SuffixSizes ==
    \A tag \in Tags, U \in SuffixSizes, I \in ItemSizes :
        (Parsed /\ input.compression = Shuffled(tag, U, I)
         /\ output.kind = "header")
        => output.uncompressed_size = U /\ output.item_size = I
\* "lz4+sh:20000:2" was parsed beside a geometry of another size
C14_Witness ==
    /\ Parsed /\ output.kind = "header"
    /\ input.compression = Shuffled(<<"l", "z", "4">>, 20000, 2)
    /\ output.uncompressed_size = 20000 /\ output.item_size = 2
    /\ output.width * output.height * 2 # 20000

\* C15: a compression other than "none" whose shuffle suffix is missing or
\* malformed does not make parse_xisf_header fail: with the other attributes
\* in order it returns uncompressed_size = width*height*2 and item_size = 1,
\* the two together.
C15_BadSuffixFallsBack ==
    \A W \in Sides, H \in Sides, C \in Channels, O \in Offsets, S \in BlockSizes :
        ( /\ Parsed /\ input.image
          /\ input.compression \in BadSuffixes
          /\ input.geometry = Colon(<<Decimal(W), Decimal(H), Decimal(C)>>)
          /\ input.sampleFormat = UInt16
          /\ input.location = Colon(<<Attachment, Decimal(O), Decimal(S)>>) )
        => /\ output.kind = "header"
           /\ output.uncompressed_size = W * H * 2
           /\ output.item_size = 1
\* "lz4+sh:20000:x" was parsed: the size read before the failure is not kept
C15_Witness ==
    /\ Parsed /\ output.kind = "header"
    /\ input.compression =
           <<"l", "z", "4">> \o ShuffleMark \o Colon(<<Decimal(20000), <<"x">>>>)
    /\ output.uncompressed_size = output.width * output.height * 2
    /\ output.uncompressed_size # 20000
    /\ output.item_size = 1

\* C16: parse_xisf_header raises, and returns no header, for every
\* sampleFormat that is not the 16-bit unsigned one and for every location
\* whose scheme is not "attachment".
NamesUInt16(f) ==
    f \in {Absent, UInt16, <<"u", "i", "n", "t", "1", "6">>,
           <<"U", "I", "N", "T", "1", "6">>}
SchemeIsAttachment(l) ==
    \/ l = Absent
    \/ /\ StartsAt(l, Attachment, 1)
       /\ (Len(l) = Len(Attachment) \/ l[Len(Attachment) + 1] = ":")
C16_RejectsOtherFormatsAndSchemes ==
    (Parsed /\ (~NamesUInt16(input.sampleFormat)
                \/ ~SchemeIsAttachment(input.location)))
    => output.kind = "raise"
\* a header that is in order but for its location "inline:base64" was
\* rejected
C16_Witness ==
    /\ Parsed /\ input.image
    /\ input.geometry = Colon(<<Decimal(100), Decimal(50), Decimal(1)>>)
    /\ input.sampleFormat = UInt16 /\ input.compression = None
    /\ input.location =
           Colon(<<<<"i", "n", "l", "i", "n", "e">>, <<"b", "a", "s", "e", "6", "4">>>>)
    /\ output = Raise("location")

\* C17: unshuffle_uint16 inverts the byte-plane shuffle: for every buffer x
\* of even length, unshuffle_uint16(shuffle(x)) = x.
C17_UnshuffleInvertsShuffle ==
    (input.fn = "unshuffle_uint16" /\ output # NoOutput) =>
        output.data = input.x
\* a buffer of three samples with differing low and high bytes came back
C17_Witness ==
    /\ input.fn = "unshuffle_uint16" /\ output # NoOutput
    /\ input.x = <<1, 255, 0, 1, 255, 0>>
    /\ input.data = <<1, 0, 255, 255, 1, 0>>
    /\ output.data = input.x

\* C18: identity tone-map law: with effective stretch 0, gamma 1, brightness 1
\* and contrast 1 the tone map returns the normalised samples of every image
\* unchanged.
C18_IdentityToneMap ==
    (input.fn = "tone_map" /\ input.par = IdentityParams /\ output # NoOutput)
        => output.samples = input.img

\* C19: when the samples of a file are not all equal the normalised image has
\* 0 at the least sample, 1 at the greatest and every sample within [0,1];
\* when they are all equal it is all zero, of the same shape.
Varies(arr) == \E i, j \in DOMAIN arr : ~arr[i].nan /\ ~arr[j].nan /\ arr[i].v < arr[j].v
AllEqual(arr) == \A i, j \in DOMAIN arr : arr[i] = arr[j]
InUnitInterval(x) == ~x.nan /\ 0 <= x.v /\ x.v <= One
C19_Normalised ==
    (input.fn = "normalize" /\ output # NoOutput) =>
        /\ DOMAIN output.samples = DOMAIN input.arr
        /\ Varies(input.arr) =>
            \A i \in DOMAIN input.arr :
                /\ InUnitInterval(output.samples[i])
                /\ input.arr[i] = nanmin(input.arr) => output.samples[i] = Num(0)
                /\ input.arr[i] = nanmax(input.arr) => output.samples[i] = Num(One)
        /\ AllEqual(input.arr) =>
            \A i \in DOMAIN input.arr : output.samples[i] = Num(0)

\* C20: once on_slider_release or apply_preset has replaced the preview of
\* the current file by the full image, displaying_preview stays False until
\* the operator selects another file, whatever else happens (the end of a
\* thumbnail run included).
C20_FullUntilNavigation == adjusted # NoPath => ~displaying_preview

\* C21: skip_up and skip_down decode nothing from disk when the file they
\* move to has a preview or lies in the decoded-image cache, and decode it
\* from disk when it has neither.
DecodedFromDisk(s, r, p) ==
    \/ p \notin CacheKeys(s.cache) /\ p \in CacheKeys(r.cache)
    \/ \E m \in r.dialog : m[2] = p
C21_SkipDecodesOnlyWhenNeeded ==
    \A r \in {skip_up(Begin), skip_down(Begin)} :
        r.current_file # current_file =>
            (DecodedFromDisk(Begin, r, r.current_file) <=>
                 /\ r.current_file \notin preview_cache
                 /\ r.current_file \notin CacheKeys(cache))
\* a skip has reached a file that has a preview and was never decoded: the
\* preview is shown and the image held is still the one of another file
C21_Witness ==
    /\ displaying_preview /\ display.kind = "preview"
    /\ display.path = current_file
    /\ current_file \notin CacheKeys(cache)
    /\ original_img_norm # NoImg /\ original_img_norm.src # current_file
    /\ dialog = {}

\* C22: a thumbnail run calls _create_single_preview exactly once for every
\* file that the active list held without a preview when the loop began,
\* whatever dump_active_file and restore_pretrash_file do meanwhile (here:
\* for every such file that was itself never moved during the run).
Count(q, x) == Cardinality({i \in 1..Len(q) : q[i] = x})
C22_EveryFileTriedOnce ==
    \A t \in DOMAIN bg :
        bg[t].pc = "finish" =>
            \A p \in bg[t].todo \ bg[t].moved : Count(bg[t].tried, p) = 1

\* C23: every started thumbnail run finishes in the end, and when it has
\* finished preview_generation_in_progress is False again (so that a later
\* request is accepted), under fair scheduling and whatever the operator
\* does meanwhile.
C23_RunFinishes ==
    (bg[1].pc = "started") ~>
        (bg[1].pc = "post" /\ ~preview_generation_in_progress)

\* C24: whenever cached_transformed is not None (and an image is held), it
\* is the tone-map of the current original_img_norm under
\* last_transform_params, so that update_display_image reuses it only for
\* the same decoded image.
C24_ToneMapCacheIsCurrent ==
    (cached_transformed # NoTransformed /\ original_img_norm # NoImg) =>
        cached_transformed = ToneMap(original_img_norm, last_transform_params)

\* C25: whenever the full image is on the label, original_img_norm is the
\* image decoded from current_file: update_display_image never tone-maps the
\* image of another file.
C25_FullImageIsOfCurrentFile ==
    display.kind = "full" => original_img_norm.src = current_file

\* C26: current_index is None or a valid index of active_files; when it is
\* an index and current_file is an active file, current_file is
\* active_files[current_index]; and no navigation indexes active_files out
\* of range, also after a selection in the PRETRASH list.
NoIndexError == <<"IndexError", NoPath>> \notin dialog
C26_IndexIsValid ==
    /\ current_index = NoIndex \/ current_index \in 0..(Len(active_files) - 1)
    /\ (current_index # NoIndex /\ current_file \in Range(active_files)) =>
           /\ current_index + 1 \in 1..Len(active_files)
           /\ current_file = active_files[current_index + 1]
    /\ NoIndexError

\* C27: at most one thumbnail run is under way at any time:
\* create_previews_for_current_folder starts no second run while a run that
\* was started has not finished (set preview_generation_in_progress back).
UnderWay(t) ==
    bg[t].pc \in {"started", "total", "iter", "loop", "body", "create",
                  "publish", "returned", "finish"}
C27_OneRunAtATime == Cardinality({t \in DOMAIN bg : UnderWay(t)}) <= 1

\* C28: every key of the decoded-image cache and of the preview store names
\* a file listed in active_files or pretrash_files: after a move by
\* dump_active_file or restore_pretrash_file neither store holds an entry
\* under the path the file was moved away from.
C28_StoresNameListedFiles ==
    \A p \in CacheKeys(cache) \cup preview_cache : p \in Listed

\* C29: dump_active_file and restore_pretrash_file conserve the file set:
\* every file of the opened folder is listed exactly once, in active_files
\* when it lies in the folder and in pretrash_files when it lies in
\* PRETRASH; and a move that fails leaves both lists and both stores as they
\* were.
ListedOnce(id) ==
    LET a == PathOf(id[1], "main", id[2])
        b == PathOf(id[1], "PRETRASH", id[2])
    IN /\ Count(active_files, a) + Count(pretrash_files, b) = 1
       /\ Count(active_files, b) + Count(pretrash_files, a) = 0
       /\ a \in Range(active_files) <=> disk[id].loc = "main"
Unmoved(r) ==
    /\ r.active_files = active_files /\ r.pretrash_files = pretrash_files
    /\ r.cache = cache /\ r.preview_cache = preview_cache /\ r.disk = disk
C29_MovesConserveFiles ==
    /\ current_folder # "none" =>
           \A id \in {x \in DOMAIN disk : x[1] = current_folder} : ListedOnce(id)
    /\ \A p \in Range(active_files) : Unmoved(DumpOne(Begin, p, {p}))
    /\ \A p \in Range(pretrash_files) : Unmoved(RestoreOne(Begin, p, {p}))
\* a move has failed after another one went through, beside a preview
C29_Witness ==
    /\ \E m \in dialog : m[1] = "was not moved" /\ m[2] \in Range(active_files)
    /\ pretrash_files # <<>>
    /\ preview_cache # {} /\ cache # <<>>

\* C30: for every container file, a load through the cache-hit path of
\* load_xisf_file leaves the same metadata text in xml_header as a load
\* through the cache-miss path, whatever the length of the metadata block.
C30_HitAndMissLeaveSameHeader ==
    \A p \in CacheKeys(cache) :
        (~IsFits(p) /\ Exists(disk, p)) =>
            load_xisf_file(Begin, p).xml_header =
                load_xisf_file(DeleteFromCache(Begin, p), p).xml_header
====
